---------------------------- MODULE Spec2Model ----------------------------
(***************************************************************************)
(* A model of pyvisio: the stencil registry (stencils.py), the document    *)
(* wrapper (documents.py), the placed-shape wrapper and the connector      *)
(* (shapes.py).                                                            *)
(*                                                                         *)
(* Every method call is one action, and so is every step of a generator    *)
(* that __iter__ returned.  A call leaves its observable result            *)
(* in the variable last: the operation, its arguments, how it ended (a     *)
(* return or the exception raised), the returned value, the log entries    *)
(* it wrote and the calls it made into the drawing application, in order.  *)
(* The drawing application behind the COM calls is modelled by what the    *)
(* doctests of the source record about it; a call into it that may fail    *)
(* is a choice between its outcomes.  Each component has its own           *)
(* specification: StencilSpec, DocumentSpec, ShapeSpec, ConnectorSpec.     *)
(***************************************************************************)
EXTENDS Integers, Sequences, FiniteSets

VARIABLES
    stencils,    \* VisStencils.__stencils: library key -> library handle
    shapes,      \* VisStencils.__shapes: shape name -> list of library keys
    loadOrder,   \* history: the keys in the order their libraries were loaded
    iterator,    \* the generator iter(stencils) last made: whether it has
                 \* started or ended, the order the dict yields the names in,
                 \* the number of names yielded
    docState,    \* "none" before VisDocument() has returned, then "open",
                 \* and "closed" after close() has returned
    docFilename, \* VisDocument._filename
    document,    \* VisDocument._document: the application's document, with
                 \* the file it is bound to and its pages (_pages)
    properties,  \* the properties of the application's document, by name
    alertResponse, \* vCOM.AlertResponse: the application's answer to dialogs
    pageIterator, \* the generator iter(document) last made: whether it has
                 \* started or ended, the number of names yielded
    handle,      \* VisShape._shape: "unbuilt" before VisShape() has returned,
                 \* then "live", and None after delete()
    pageShape,   \* the application's shape on the page: whether it exists,
                 \* the formulas of its cells, its text
    link,        \* the VisConnector last constructed: whether it is built,
                 \* live or deleted, the id of its shape (_shape), its _type
    pageLinks,   \* the application's connector shapes on the page, by id:
                 \* their NameU, text and cells
    fromConnects, \* shapeA._shape.FromConnects: the ids of the connectors
                 \* glued to shape A, in the order they were glued
    last         \* the observable result of the latest call

stencilVars == <<stencils, shapes, loadOrder>>
documentVars == <<docState, docFilename, document, properties, alertResponse>>
shapeVars == <<handle, pageShape>>
connectorVars == <<link, pageLinks, fromConnects>>
iterVars == <<iterator, pageIterator>>
vars == <<stencils, shapes, loadOrder, iterator, docState, docFilename, document,
          properties, alertResponse, pageIterator, handle, pageShape, link,
          pageLinks, fromConnects, last>>

-----------------------------------------------------------------------------
(* Bounds *)

\* get() is tried with every index in -MaxIndex .. MaxIndex
MaxIndex == 2

\* pages are added while the document has fewer than MaxPages pages
MaxPages == 3

\* positions and sizes are written with the numbers 0 .. MaxNumber
MaxNumber == 1

-----------------------------------------------------------------------------
(* Values shared by all components *)

None == "None"

Max(S) == CHOOSE m \in S : \A x \in S : x <= m

\* logger.error(fmt, arg)
LogError(msg, arg) == [level |-> "ERROR", msg |-> msg, arg |-> arg]

\* the record a call leaves behind
Result(op, args, outcome, value, log, ext) ==
    [op |-> op, args |-> args, outcome |-> outcome, value |-> value,
     log |-> log, ext |-> ext]

Returned(op, args, value, ext) == Result(op, args, "return", value, <<>>, ext)

\* an exception of type exc carrying value, raised after the entries of log
Raised(op, args, exc, value, log, ext) == Result(op, args, exc, value, log, ext)

NoCall == Result("none", <<>>, "none", None, <<>>, <<>>)

\* a call into the drawing application
ExtCall(name, arg) == [call |-> name, arg |-> arg]

\* the two log lines of an except com_error block
ComErrorLog(msg, arg) ==
    <<LogError(msg, arg), LogError("COM Exception: %s", "com_error")>>

-----------------------------------------------------------------------------
(* os.path as used by add_stencil (the package runs on Windows: ntpath).   *)
(* A file name is a sequence of one-character strings.                     *)

Sep == "\\"
AltSep == "/"
ExtSep == "."

\* p.rfind over a set of characters, 1-based: 0 when none occurs
RFind(p, chars) ==
    LET S == {i \in 1..Len(p) : p[i] \in chars}
    IN  IF S = {} THEN 0 ELSE Max(S)

\* os.path.splitext(p)[0]: the extension starts at the last dot of the last
\* path component, unless that component has only dots before it
SplitextRoot(p) ==
    LET sepIndex == RFind(p, {Sep, AltSep})
        dotIndex == RFind(p, {ExtSep})
    IN  IF /\ dotIndex > sepIndex
           /\ \E i \in (sepIndex + 1)..(dotIndex - 1) : p[i] # ExtSep
        THEN SubSeq(p, 1, dotIndex - 1)
        ELSE p

\* p.find(sep, start) on the path with "/" read as "\", 1-based: the first
\* separator at or after position start, 0 when there is none
FindSep(p, start) ==
    LET S == {i \in start..Len(p) : p[i] \in {Sep, AltSep}}
    IN  IF S = {} THEN 0 ELSE CHOOSE i \in S : \A j \in S : i <= j

\* the length of the drive of os.path.splitdrive(p): a UNC prefix
\* \\host\share (two separators, then no third), or a drive letter X:
DriveLen(p) ==
    IF Len(p) <= 1 THEN 0
    ELSE IF /\ p[1] \in {Sep, AltSep}
            /\ p[2] \in {Sep, AltSep}
            /\ (Len(p) >= 3 => p[3] \notin {Sep, AltSep})
         THEN LET index == FindSep(p, 3)
                  index2 == IF index = 0 THEN 0 ELSE FindSep(p, index + 1)
              IN  IF index = 0 THEN 0
                  ELSE IF index2 = index + 1 THEN 0
                  ELSE IF index2 = 0 THEN Len(p)
                  ELSE index2 - 1
         ELSE IF p[2] = ":" THEN 2 ELSE 0

\* os.path.splitdrive(p)[1]
SplitDriveTail(p) == SubSeq(p, DriveLen(p) + 1, Len(p))

\* os.path.basename(p)
Basename(p) ==
    LET q == SplitDriveTail(p)
        i == RFind(q, {Sep, AltSep})
    IN  SubSeq(q, i + 1, Len(q))

\* key = os.path.basename(os.path.splitext(filename)[0])
StencilKey(filename) == Basename(SplitextRoot(filename))

-----------------------------------------------------------------------------
(* Inputs of the stencil component *)

\* the file names add_stencil is called with
Filenames ==
    { <<"a", ".", "v">>,                  \* a.v
      <<"\\", "\\", "h", "\\", "s", "\\", "a", ".", "x">>, \* \\h\s\a.x
      <<"c", ":", "d", "/", "b", ".", "m", ".", "v">>, \* c:d/b.m.v
      <<".", "v">> }                      \* .v

\* the master names a library may hold, and a name no library holds
MasterNames == {"PC", "Server"}
ShapeArgs == MasterNames \cup {"NonExistingShape"}
Indexes == (0 - MaxIndex)..MaxIndex

\* a library document as the application returns it from OpenEx: the file
\* it was opened from and the universal names of its masters
Library(filename, masters) == [file |-> filename, masters |-> masters]

\* the masters a library file may hold: none, one, or both
LibraryContents == {{}, {"PC"}, {"PC", "Server"}}

\* vCOM.Documents.OpenEx(filename, vC.visOpenDocked): com_error, or the
\* library with whatever masters the file holds
OpenEx(filename) ==
    [failed : {TRUE}, library : {Library(filename, {})}]
        \cup [failed : {FALSE},
              library : {Library(filename, m) : m \in LibraryContents}]

\* library.Masters.ItemU(shape): the master of that name in the library,
\* com_error when the library has none
MasterItemU(library, shape) ==
    [failed |-> shape \notin library.masters,
     master |-> [library |-> library, name |-> shape]]

\* every order in which a dict may yield the keys in S
Orders(S) ==
    {s \in [1..Cardinality(S) -> S] : \A i, j \in DOMAIN s : s[i] = s[j] => i = j}

-----------------------------------------------------------------------------
(* VisStencils *)

\* a variant of IsLoaded that never finds the key
IsLoadedNever(key) == FALSE

\* key in self.__stencils
IsLoaded(key) == key \in DOMAIN stencils

\* a variant of InsertKey that appends the key at the end of the list
InsertKeyAtEnd(keys, key) == Append(keys, key)

\* self.__shapes[shape.NameU].insert(0, key)
InsertKey(keys, key) == <<key>> \o keys

\* a variant of RegisterMaster that starts the list of a known name anew
RegisterMasterAnew(reg, name, key) ==
    [n \in DOMAIN reg \cup {name} |-> IF n = name THEN <<key>> ELSE reg[n]]

\* the body of the loop over the library's masters
RegisterMaster(reg, name, key) ==
    IF name \notin DOMAIN reg
    THEN [n \in DOMAIN reg \cup {name} |-> IF n = name THEN <<key>> ELSE reg[n]]
    ELSE [reg EXCEPT ![name] = InsertKey(reg[name], key)]

\* a variant of RegisterMasters that leaves the loop after the first master
RegisterMastersFirstOnly(reg, masters, key) ==
    IF masters = {}
    THEN reg
    ELSE RegisterMaster(reg, CHOOSE n \in masters : TRUE, key)

\* for shape in self.__stencils[key].Masters: ...
RECURSIVE RegisterMasters(_, _, _)
RegisterMasters(reg, masters, key) ==
    IF masters = {}
    THEN reg
    ELSE LET name == CHOOSE n \in masters : TRUE
         IN  RegisterMasters(RegisterMaster(reg, name, key), masters \ {name}, key)

\* a variant of StoreLibrary that loses the library
StoreLibraryDropped(libs, key, library) == libs

\* self.__stencils[key] = library
StoreLibrary(libs, key, library) ==
    [k \in DOMAIN libs \cup {key} |-> IF k = key THEN library ELSE libs[k]]

OpenExCall(filename) == ExtCall("Documents.OpenEx", filename)

\* a variant of add_stencil that stores the key before the open is known to
\* have succeeded, so a failed open leaves an entry behind
add_stencil_keeps_failed(filename) ==
    /\ UNCHANGED <<iterVars, documentVars, shapeVars, connectorVars>>
    /\ LET key  == StencilKey(filename)
           args == <<filename>>
       IN  IF IsLoaded(key)
           THEN /\ last' = Returned("add_stencil", args, None, <<>>)
                /\ UNCHANGED stencilVars
           ELSE \E opened \in OpenEx(filename) :
                  /\ stencils' = StoreLibrary(stencils, key, opened.library)
                  /\ shapes' = RegisterMasters(shapes, opened.library.masters, key)
                  /\ loadOrder' = IF opened.failed THEN loadOrder
                                                   ELSE Append(loadOrder, key)
                  /\ last' = IF opened.failed
                             THEN Raised("add_stencil", args, "com_error", None,
                                         ComErrorLog("Loading of stencil file failed for: %s",
                                                     filename),
                                         <<OpenExCall(filename)>>)
                             ELSE Returned("add_stencil", args, None,
                                           <<OpenExCall(filename)>>)

\* VisStencils.add_stencil(filename)
add_stencil(filename) ==
    /\ UNCHANGED <<iterVars, documentVars, shapeVars, connectorVars>>
    /\ LET key  == StencilKey(filename)
           args == <<filename>>
       IN  IF IsLoaded(key)
           THEN /\ last' = Returned("add_stencil", args, None, <<>>)
                /\ UNCHANGED stencilVars
           ELSE \E opened \in OpenEx(filename) :
                  IF opened.failed
                  THEN /\ last' = Raised("add_stencil", args, "com_error", None,
                                         ComErrorLog("Loading of stencil file failed for: %s",
                                                     filename),
                                         <<OpenExCall(filename)>>)
                       /\ UNCHANGED stencilVars
                  ELSE /\ stencils' = StoreLibrary(stencils, key, opened.library)
                       /\ shapes' = RegisterMasters(shapes, opened.library.masters, key)
                       /\ loadOrder' = Append(loadOrder, key)
                       /\ last' = Returned("add_stencil", args, None,
                                           <<OpenExCall(filename)>>)

\* shape in self.__shapes
IsRegistered(shape) == shape \in DOMAIN shapes

\* a variant of IndexInRange without the lower bound
IndexInRangeNoLower(keys, index) == Len(keys) > index

\* len(self.__shapes[shape]) > index >= 0
IndexInRange(keys, index) == Len(keys) > index /\ index >= 0

\* keys[index] on a Python list: a negative index counts from the end, an
\* index outside -len .. len-1 raises IndexError
ListItem(keys, index) ==
    IF 0 <= index /\ index < Len(keys)
    THEN [failed |-> FALSE, item |-> keys[index + 1]]
    ELSE IF index < 0 /\ 0 - Len(keys) <= index
         THEN [failed |-> FALSE, item |-> keys[Len(keys) + index + 1]]
         ELSE [failed |-> TRUE, item |-> <<>>]

ItemUCall(key, shape) == ExtCall("Masters.ItemU", <<key, shape>>)

\* a variant of GetResult that checks the index before the name
GetResultIndexFirst(op, args, shape, index) ==
    IF index < 0 \/ ~ IsRegistered(shape)
    THEN IF index < 0
         THEN Raised(op, args, "ValueError", index,
                     <<LogError("Bad shape index: %s", index)>>, <<>>)
         ELSE Raised(op, args, "KeyError", shape,
                     <<LogError("Non existing shape: %s", shape)>>, <<>>)
    ELSE IF IndexInRange(shapes[shape], index)
         THEN LET key == ListItem(shapes[shape], index).item
              IN  Returned(op, args, MasterItemU(stencils[key], shape).master,
                           <<ItemUCall(key, shape)>>)
         ELSE Raised(op, args, "ValueError", index,
                     <<LogError("Bad shape index: %s", index)>>, <<>>)

\* the result of self.get(shape, index), reported as the call op(args)
GetResult(op, args, shape, index) ==
    IF IsRegistered(shape)
    THEN IF IndexInRange(shapes[shape], index)
         THEN LET picked == ListItem(shapes[shape], index)
                  key    == picked.item
                  item   == MasterItemU(stencils[key], shape)
              IN  IF picked.failed
                  THEN Raised(op, args, "IndexError", None, <<>>, <<>>)
                  ELSE IF item.failed
                       THEN Raised(op, args, "com_error", None, <<>>,
                                   <<ItemUCall(key, shape)>>)
                       ELSE Returned(op, args, item.master,
                                     <<ItemUCall(key, shape)>>)
         ELSE Raised(op, args, "ValueError", index,
                     <<LogError("Bad shape index: %s", index)>>, <<>>)
    ELSE Raised(op, args, "KeyError", shape,
                <<LogError("Non existing shape: %s", shape)>>, <<>>)

\* VisStencils.get(shape, index)
get(shape, index) ==
    /\ last' = GetResult("get", <<shape, index>>, shape, index)
    /\ UNCHANGED <<iterVars, stencilVars, documentVars, shapeVars, connectorVars>>

\* VisStencils.__getitem__(shape)
getitem(shape) ==
    /\ last' = GetResult("getitem", <<shape>>, shape, 0)
    /\ UNCHANGED <<iterVars, stencilVars, documentVars, shapeVars, connectorVars>>

\* logger.warning(msg)
LogWarning(msg) == [level |-> "WARNING", msg |-> msg, arg |-> None]

\* the dict get_info returns: the initial one, and the one filled from a
\* master that holds a single shape
InfoDict(filled) ==
    [objectType |-> IF filled THEN "visObjTypeMaster" ELSE "visObjTypeUnknown",
     shapesCount |-> IF filled THEN 1 ELSE 0,
     filled |-> filled]

\* VisStencils.get_info(shape, index): whether the master holds one shape
\* is the library's matter
get_info(shape, index) ==
    /\ LET args == <<shape, index>>
           got  == GetResult("get_info", args, shape, index)
       IN  IF got.outcome # "return"
           THEN last' = got
           ELSE \E single \in BOOLEAN :
                  last' = IF single
                          THEN Returned("get_info", args, InfoDict(TRUE),
                                        got.ext \o <<ExtCall("Master.Shapes", shape)>>
                                                \o got.ext
                                                \o <<ExtCall("Master.BoundingBox", shape)>>)
                          ELSE Result("get_info", args, "return", InfoDict(FALSE),
                                      <<LogWarning("Object type is not 'master', results unpredictable")>>,
                                      got.ext \o <<ExtCall("Master.Shapes", shape)>>)
    /\ UNCHANGED <<iterVars, stencilVars, documentVars, shapeVars, connectorVars>>

\* the files export is called with
ExportPaths == {"stencil.svg"}

SettingsCall == ExtCall("Settings.RasterExportUseTransparencyColor=", 0 - 1)

\* VisStencils.export(filename, shape, index)
export(path, shape, index) ==
    /\ LET args == <<path, shape, index>>
           got  == GetResult("export", args, shape, index)
           call == ExtCall("Shape.Export", path)
       IN  IF got.outcome # "return"
           THEN last' = [got EXCEPT !.ext = <<SettingsCall>> \o @]
           ELSE \E failed \in BOOLEAN :
                  last' = IF failed
                          THEN Raised("export", args, "com_error", None,
                                      <<LogError("Export failed: %s", "com_error")>>,
                                      <<SettingsCall>> \o got.ext \o <<call>>)
                          ELSE Returned("export", args, None,
                                        <<SettingsCall>> \o got.ext \o <<call>>)
    /\ UNCHANGED <<iterVars, stencilVars, documentVars, shapeVars, connectorVars>>

\* a generator: not made, made and not started ("created"), suspended at
\* its yield ("running"), or ended ("done")
Generator(phase, order, pos) == [phase |-> phase, order |-> order, pos |-> pos]

\* iter(stencils): VisStencils.__iter__ returns a generator; none of its
\* body has run
iter ==
    /\ iterator' = Generator("created", <<>>, 0)
    /\ last' = Returned("iter", <<>>, None, <<>>)
    /\ UNCHANGED <<pageIterator, stencilVars, documentVars, shapeVars, connectorVars>>

\* next(it) on the generator of VisStencils.__iter__: the first call starts
\* the loop over the dict, every call runs the loop to its next yield.  The
\* dict iterator raises RuntimeError when the dict has not the size it had
\* when the loop started, and the generator ends with the loop or with the
\* exception
iter_next ==
    /\ iterator.phase # "none"
    /\ \E order \in IF iterator.phase = "created" THEN Orders(DOMAIN shapes)
                     ELSE {iterator.order} :
          IF iterator.phase = "done"
          THEN /\ last' = Raised("next", <<>>, "StopIteration", None, <<>>, <<>>)
               /\ UNCHANGED iterator
          ELSE IF Cardinality(DOMAIN shapes) # Len(order)
          THEN /\ last' = Raised("next", <<>>, "RuntimeError", None, <<>>, <<>>)
               /\ iterator' = Generator("done", <<>>, 0)
          ELSE IF iterator.pos < Len(order)
          THEN /\ last' = Returned("next", <<>>, order[iterator.pos + 1], <<>>)
               /\ iterator' = Generator("running", order, iterator.pos + 1)
          ELSE /\ last' = Raised("next", <<>>, "StopIteration", None, <<>>, <<>>)
               /\ iterator' = Generator("done", <<>>, 0)
    /\ UNCHANGED <<pageIterator, stencilVars, documentVars, shapeVars, connectorVars>>

\* shape in stencils: no __contains__ is defined, so Python searches the
\* values that a generator of __iter__ yields, within the one call
Contains(order, shape) == \E i \in DOMAIN order : order[i] = shape

contains(shape) ==
    /\ \E order \in Orders(DOMAIN shapes) :
          last' = Returned("contains", <<shape>>, Contains(order, shape), <<>>)
    /\ UNCHANGED <<iterVars, stencilVars, documentVars, shapeVars, connectorVars>>

-----------------------------------------------------------------------------
(* The drawing application's documents and pages, as VisDocument uses them *)

\* the values vCOM.AlertResponse has when the package is first used: 0 (ask
\* the user) or 1 (answer OK)
AlertResponses == {0, 1}

\* vCOM.AlertResponse = 7: answer No
AnswerNo == 7

\* the property names read and set: two the document object has and one it
\* has not
PropertyNames == {"Company", "Creator"}
PropertyNameArgs == PropertyNames \cup {"NonExistingProperty"}
PropertyValueArgs == {"Myself"}

\* the properties of a new document: those of the template, empty ones for
\* a blank document
DocumentProperties(file) ==
    IF file = ""
    THEN [n \in PropertyNames |-> ""]
    ELSE [Company |-> "Sample Company", Creator |-> "Sample Author"]

\* the arguments VisDocument() is called with
DocFilenames == {"", "sample_document.vsd", "DoNotExist.vsd"}

\* the paths saveAs is called with
SavePaths == {"", "sample_document1.vsd"}

\* the names add is called with (None: no name given)
PageNameArgs == {None, "TestPage", "Page-1", "Page-2"}

\* the argument of document[page]: an Int (a position) or a Str (a name)
IntArg(n) == [type |-> "Int", int |-> n, str |-> ""]
StrArg(t) == [type |-> "Str", int |-> 0, str |-> t]

PageArgs ==
    {IntArg(n) : n \in 0..(MaxPages + 1)}
        \cup {StrArg(t) : t \in {"TestPage", "Page-1", "Page-2", "UnknownPage"}}

Page(name, autosize) == [name |-> name, autosize |-> autosize]

\* an application document: the file it is bound to ("" when it has none)
\* and its pages, in order
Document(path, pages) == [path |-> path, pages |-> pages]

NoDocument == Document("", <<>>)

\* the pages of the readable document files
FilePages(file) == <<Page("Page-1", FALSE)>>

FileExists(file) == file = "sample_document.vsd"

\* vCOM.Documents.Add(filename): a new document with the content of the
\* template, blank for "", not bound to any file; com_error when the
\* template cannot be read
DocumentsAdd(file) ==
    IF file = ""
    THEN [failed |-> FALSE, document |-> Document("", <<Page("Page-1", FALSE)>>)]
    ELSE IF FileExists(file)
         THEN [failed |-> FALSE, document |-> Document("", FilePages(file))]
         ELSE [failed |-> TRUE, document |-> NoDocument]

\* vCOM.Documents.Open(filename): the document of the file, bound to it;
\* com_error when the file cannot be read
DocumentsOpen(file) ==
    IF FileExists(file)
    THEN [failed |-> FALSE, document |-> Document(file, FilePages(file))]
    ELSE [failed |-> TRUE, document |-> NoDocument]

PageNames(doc) == {doc.pages[i].name : i \in DOMAIN doc.pages}

\* the default name of a new page: Page-N for the first N from the new
\* page's position on that no page has
DefaultPageNames == <<"Page-1", "Page-2", "Page-3", "Page-4", "Page-5", "Page-6", "Page-7", "Page-8">>

NewPageName(doc) ==
    LET free == {n \in (Len(doc.pages) + 1)..Len(DefaultPageNames) :
                    DefaultPageNames[n] \notin PageNames(doc)}
    IN  DefaultPageNames[CHOOSE n \in free : \A m \in free : n <= m]

\* Pages.Add(): com_error, or a new page after the last one
PagesAdd(doc) ==
    { [failed |-> TRUE, document |-> doc, index |-> 0],
      [failed |-> FALSE,
       document |-> [doc EXCEPT !.pages = Append(@, Page(NewPageName(doc), FALSE))],
       index |-> Len(doc.pages) + 1] }

\* new_page.AutoSize = True
SetAutoSize(doc, index) == [doc EXCEPT !.pages[index].autosize = TRUE]

\* new_page.NameU = name: com_error when another page has the name
SetNameU(doc, index, name) ==
    IF \E i \in DOMAIN doc.pages : i # index /\ doc.pages[i].name = name
    THEN [failed |-> TRUE, document |-> doc]
    ELSE [failed |-> FALSE, document |-> [doc EXCEPT !.pages[index].name = name]]

\* Pages.ItemU(page): the page at that position (from 1) or of that name;
\* com_error when there is none
PagesItemU(doc, page) ==
    LET found == {i \in DOMAIN doc.pages :
                     \/ page.type = "Int" /\ page.int = i
                     \/ page.type = "Str" /\ page.str = doc.pages[i].name}
    IN  IF found = {}
        THEN [failed |-> TRUE, index |-> 0]
        ELSE [failed |-> FALSE, index |-> CHOOSE i \in found : TRUE]

\* Document.Save(): com_error, or the document is written to the file it
\* is bound to; a document bound to no file always fails
DocumentSave(doc) ==
    {[failed |-> TRUE, document |-> doc]}
        \cup (IF doc.path = "" THEN {}
              ELSE {[failed |-> FALSE, document |-> doc]})

\* Document.SaveAs(path): com_error, or the document is written to path and
\* bound to it; an empty path always fails
DocumentSaveAs(doc, path) ==
    {[failed |-> TRUE, document |-> doc]}
        \cup (IF path = "" THEN {}
              ELSE {[failed |-> FALSE, document |-> [doc EXCEPT !.path = path]]})

-----------------------------------------------------------------------------
(* VisDocument *)

\* VisDocument(filename, rw)
VisDocument(file, rw) ==
    /\ docState = "none"
    /\ LET made == IF rw = FALSE THEN DocumentsAdd(file) ELSE DocumentsOpen(file)
           call == ExtCall(IF rw = FALSE THEN "Documents.Add" ELSE "Documents.Open", file)
       IN  IF made.failed
           THEN /\ last' = Raised("VisDocument", <<file, rw>>, "com_error", None,
                                  ComErrorLog("Loading of document failed for: %s", file),
                                  <<call>>)
                /\ UNCHANGED documentVars
           ELSE /\ docState' = "open"
                /\ docFilename' = file
                /\ document' = made.document
                /\ properties' = DocumentProperties(file)
                /\ UNCHANGED alertResponse
                /\ last' = Returned("VisDocument", <<file, rw>>, None, <<call>>)
    /\ UNCHANGED <<iterVars, stencilVars, shapeVars, connectorVars>>

\* VisDocument.__len__
document_len ==
    /\ docState = "open"
    /\ last' = Returned("len", <<>>, Len(document.pages), <<ExtCall("Pages.Count", None)>>)
    /\ UNCHANGED <<iterVars, stencilVars, documentVars, shapeVars, connectorVars>>

\* a variant of AddFinish that never assigns the name
AddFinishUnnamed(name, added) ==
    [document |-> SetAutoSize(added.document, added.index),
     result |-> Returned("add", <<name>>, added.index,
                         <<ExtCall("Pages.Add", None), ExtCall("Page.AutoSize=", TRUE)>>)]

\* a variant of AddFinish that returns the position counted from 0
AddFinishFromZero(name, added) ==
    LET sized == SetAutoSize(added.document, added.index)
        named == SetNameU(sized, added.index, name)
        calls == <<ExtCall("Pages.Add", None), ExtCall("Page.AutoSize=", TRUE)>>
    IN  IF name # None
        THEN IF named.failed
             THEN [document |-> sized,
                   result |-> Raised("add", <<name>>, "com_error", None, <<>>,
                                     Append(calls, ExtCall("Page.NameU=", name)))]
             ELSE [document |-> named.document,
                   result |-> Returned("add", <<name>>, added.index - 1,
                                       Append(calls, ExtCall("Page.NameU=", name)))]
        ELSE [document |-> sized,
              result |-> Returned("add", <<name>>, added.index - 1, calls)]

\* the document after self._pages.Add() succeeded in add(name), and how add ends
AddFinish(name, added) ==
    LET sized == SetAutoSize(added.document, added.index)
        named == SetNameU(sized, added.index, name)
        calls == <<ExtCall("Pages.Add", None), ExtCall("Page.AutoSize=", TRUE)>>
    IN  IF name # None
        THEN IF named.failed
             THEN [document |-> sized,
                   result |-> Raised("add", <<name>>, "com_error", None, <<>>,
                                     Append(calls, ExtCall("Page.NameU=", name)))]
             ELSE [document |-> named.document,
                   result |-> Returned("add", <<name>>, added.index,
                                       Append(calls, ExtCall("Page.NameU=", name)))]
        ELSE [document |-> sized,
              result |-> Returned("add", <<name>>, added.index, calls)]

\* VisDocument.add(name)
add(name) ==
    /\ docState = "open"
    /\ Len(document.pages) < MaxPages
    /\ \E added \in PagesAdd(document) :
          IF added.failed
          THEN /\ last' = Raised("add", <<name>>, "com_error", None,
                                 ComErrorLog("Page adding failed for page: %s", name),
                                 <<ExtCall("Pages.Add", None)>>)
               /\ UNCHANGED document
          ELSE /\ document' = AddFinish(name, added).document
               /\ last' = AddFinish(name, added).result
    /\ UNCHANGED <<iterVars, stencilVars, docState, docFilename, properties, alertResponse, shapeVars, connectorVars>>

\* the names a generator of VisDocument.__iter__ yields when it is run to
\* its end on the document doc
DocumentIter(doc) == [i \in DOMAIN doc.pages |-> doc.pages[i].name]

\* iter(document): VisDocument.__iter__ returns a generator; none of its
\* body has run
document_iter ==
    /\ docState = "open"
    /\ pageIterator' = Generator("created", <<>>, 0)
    /\ last' = Returned("document_iter", <<>>, None, <<>>)
    /\ UNCHANGED <<iterator, stencilVars, documentVars, shapeVars, connectorVars>>

\* next(it) on the generator of VisDocument.__iter__: the loop asks the
\* Pages collection for its next page and yields the NameU the page has
\* then; it ends when the collection has no further page
document_next ==
    /\ docState = "open"
    /\ pageIterator.phase # "none"
    /\ IF pageIterator.phase # "done" /\ pageIterator.pos < Len(document.pages)
       THEN /\ last' = Returned("document_next", <<>>,
                                document.pages[pageIterator.pos + 1].name,
                                <<ExtCall("Page.NameU", None)>>)
            /\ pageIterator' = Generator("running", <<>>, pageIterator.pos + 1)
       ELSE /\ last' = Raised("document_next", <<>>, "StopIteration", None, <<>>, <<>>)
            /\ pageIterator' = Generator("done", <<>>, 0)
    /\ UNCHANGED <<iterator, stencilVars, documentVars, shapeVars, connectorVars>>

\* name in document: Python searches the values that __iter__ yields
DocumentContains(doc, name) == Contains(DocumentIter(doc), name)

document_contains(name) ==
    /\ docState = "open"
    /\ last' = Returned("document_contains", <<name>>, DocumentContains(document, name), <<>>)
    /\ UNCHANGED <<iterVars, stencilVars, documentVars, shapeVars, connectorVars>>

\* the result of VisDocument.__getitem__(page) on doc
GetItemResult(doc, page) ==
    LET item == PagesItemU(doc, page)
    IN  IF item.failed
        THEN Raised("document_getitem", <<page>>, "com_error", None,
                    ComErrorLog("Getting page '%s' failed", page),
                    <<ExtCall("Pages.ItemU", page)>>)
        ELSE Returned("document_getitem", <<page>>,
                      [index |-> item.index, name |-> doc.pages[item.index].name],
                      <<ExtCall("Pages.ItemU", page)>>)

document_getitem(page) ==
    /\ docState = "open"
    /\ last' = GetItemResult(document, page)
    /\ UNCHANGED <<iterVars, stencilVars, documentVars, shapeVars, connectorVars>>

\* VisDocument.save()
save ==
    /\ docState = "open"
    /\ \E saved \in DocumentSave(document) :
          /\ document' = saved.document
          /\ last' = IF saved.failed
                     THEN Raised("save", <<>>, "com_error", None,
                                 ComErrorLog("Failed to save document to file", None),
                                 <<ExtCall("Document.Save", None)>>)
                     ELSE Returned("save", <<>>, None, <<ExtCall("Document.Save", None)>>)
    /\ UNCHANGED <<iterVars, stencilVars, docState, docFilename, properties, alertResponse, shapeVars, connectorVars>>

\* a variant of saveAs that calls Document.Save() instead of SaveAs(filename)
saveAsCallsSave(path) ==
    /\ docState = "open"
    /\ \E saved \in DocumentSave(document) :
          /\ document' = saved.document
          /\ last' = IF saved.failed
                     THEN Raised("saveAs", <<path>>, "com_error", None,
                                 ComErrorLog("Failed to save document to file: %s", path),
                                 <<ExtCall("Document.Save", None)>>)
                     ELSE Returned("saveAs", <<path>>, None,
                                   <<ExtCall("Document.Save", None)>>)
    /\ UNCHANGED <<iterVars, stencilVars, docState, docFilename, properties, alertResponse, shapeVars, connectorVars>>

\* VisDocument.saveAs(filename)
saveAs(path) ==
    /\ docState = "open"
    /\ \E saved \in DocumentSaveAs(document, path) :
          /\ document' = saved.document
          /\ last' = IF saved.failed
                     THEN Raised("saveAs", <<path>>, "com_error", None,
                                 ComErrorLog("Failed to save document to file: %s", path),
                                 <<ExtCall("Document.SaveAs", path)>>)
                     ELSE Returned("saveAs", <<path>>, None,
                                   <<ExtCall("Document.SaveAs", path)>>)
    /\ UNCHANGED <<iterVars, stencilVars, docState, docFilename, properties, alertResponse, shapeVars, connectorVars>>

\* hasattr(self._document, name)
HasProperty(name) == name \in DOMAIN properties

MissingProperty(op, args, name) ==
    Raised(op, args, "AttributeError", name,
           <<LogError("Property does not exist: %s", name)>>, <<>>)

\* VisDocument.__getattr__(item): document.<item>
getattr(item) ==
    /\ docState = "open"
    /\ last' = IF HasProperty(item)
               THEN Returned("getattr", <<item>>, properties[item],
                             <<ExtCall("Document.getattr", item)>>)
               ELSE MissingProperty("getattr", <<item>>, item)
    /\ UNCHANGED <<iterVars, stencilVars, documentVars, shapeVars, connectorVars>>

\* a variant of SetAttr that drops the write
SetAttrDropped(props, name, value) == props

\* setattr(self._document, name, value)
SetAttr(props, name, value) == [props EXCEPT ![name] = value]

\* VisDocument.setProperty(name, value)
setProperty(name, value) ==
    /\ docState = "open"
    /\ IF HasProperty(name)
       THEN /\ properties' = SetAttr(properties, name, value)
            /\ last' = Returned("setProperty", <<name, value>>, None,
                                <<ExtCall("Document.setattr", <<name, value>>)>>)
       ELSE /\ last' = MissingProperty("setProperty", <<name, value>>, name)
            /\ UNCHANGED properties
    /\ UNCHANGED <<iterVars, stencilVars, docState, docFilename, document, alertResponse, shapeVars, connectorVars>>

\* self._document.Close(): com_error, or the document is closed
DocumentClose == {[failed |-> TRUE], [failed |-> FALSE]}

\* a variant of AlertResponseAfterClose that keeps the value set for the close
AlertResponseKept(before, during) == during

\* vCOM.AlertResponse = AlertResponse, after Close() returned
AlertResponseAfterClose(before, during) == before

\* VisDocument.close(nosave)
close(nosave) ==
    /\ docState = "open"
    /\ \E closed \in DocumentClose :
          LET before == alertResponse
              during == IF nosave THEN AnswerNo ELSE before
              calls  == (IF nosave THEN <<ExtCall("AlertResponse=", AnswerNo)>> ELSE <<>>)
                            \o <<ExtCall("Document.Close", None)>>
          IN  IF closed.failed
              THEN /\ alertResponse' = during
                   /\ UNCHANGED docState
                   /\ last' = Raised("close", <<nosave>>, "com_error", None,
                                     ComErrorLog("Failed to print document", None),
                                     calls)
              ELSE /\ alertResponse' = AlertResponseAfterClose(before, during)
                   /\ docState' = "closed"
                   /\ last' = Returned("close", <<nosave>>, None,
                                       Append(calls, ExtCall("AlertResponse=", before)))
    /\ UNCHANGED <<iterVars, stencilVars, docFilename, document, properties, shapeVars, connectorVars>>

-----------------------------------------------------------------------------
(* The drawing application's shapes and cells, as VisShape uses them *)

\* Python values that VisShape takes and returns: a float, a str or unicode
\* (with or without a leading "=", its body quoted or not), and the
\* application's Cell object of a shape's cell
Float(n) == [type |-> "float", num |-> n, eq |-> FALSE, quoted |-> FALSE, body |-> <<>>]
Str(eq, quoted, body) ==
    [type |-> "str", num |-> 0, eq |-> eq, quoted |-> quoted, body |-> body]
CellObject(name) ==
    [type |-> "Cell", num |-> 0, eq |-> FALSE, quoted |-> FALSE, body |-> <<name>>]

\* float(xval) for a number
ToFloat(n) == Float(n)

\* the formula a cell holds: a number or an expression
NumFormula(n) == [kind |-> "num", num |-> n, quoted |-> FALSE, body |-> <<>>]
TextFormula(quoted, body) ==
    [kind |-> "text", num |-> 0, quoted |-> quoted, body |-> body]

\* Cell.FormulaU = value: a number is stored as it is, a string without
\* its leading "="
SetFormulaU(value) ==
    IF value.type = "float"
    THEN NumFormula(value.num)
    ELSE TextFormula(value.quoted, value.body)

\* Cell.FormulaU read: the formula as a string, never with a leading "="
GetFormulaU(formula) ==
    IF formula.kind = "num"
    THEN Str(FALSE, FALSE, <<formula.num>>)
    ELSE Str(FALSE, formula.quoted, formula.body)

\* the masters that are dropped: their cells before the drop position is set
MasterArgs == {"Circle", "Rectangle"}

MasterCells(master) ==
    [PinX |-> NumFormula(0), PinY |-> NumFormula(0),
     Width |-> NumFormula(1),
     Height |-> IF master = "Circle" THEN TextFormula(FALSE, <<"Width">>)
                                     ELSE NumFormula(1),
     LineColor |-> TextFormula(FALSE, <<"THEMEVAL">>),
     Fillforegnd |-> TextFormula(FALSE, <<"THEMEVAL">>),
     LineWeight |-> TextFormula(FALSE, <<"THEMEVAL", "LineWeight">>)]

\* the value of a position or size cell: its number, or the value of the
\* cell its formula names
CellResult(cells, name) ==
    IF cells[name].kind = "num"
    THEN cells[name].num
    ELSE cells[cells[name].body[1]].num

PlacedShape(cells, text) == [exists |-> TRUE, cells |-> cells, text |-> text]

NoShape == [exists |-> FALSE, cells |-> <<>>, text |-> ""]

\* page.Drop(stencil, x, y): the master's shape with its pin at (x, y)
Drop(master, xval, yval) ==
    PlacedShape([MasterCells(master) EXCEPT !.PinX = SetFormulaU(xval),
                                            !.PinY = SetFormulaU(yval)], "")

\* Shape.SetCenter(x, y)
SetCenter(placed, xval, yval) ==
    [placed EXCEPT !.cells.PinX = SetFormulaU(xval),
                   !.cells.PinY = SetFormulaU(yval)]

\* Shape.BoundingBox(visBBoxUprightWH, ...): (x0, y0, x1, y1), in halves of
\* the unit
BoundingBox(placed) ==
    LET px == CellResult(placed.cells, "PinX")
        py == CellResult(placed.cells, "PinY")
        wd == CellResult(placed.cells, "Width")
        ht == CellResult(placed.cells, "Height")
    IN  <<2 * px - wd, 2 * py - ht, 2 * px + wd, 2 * py + ht>>

\* Shape.CellExistsU(cellid, 0)
CellExistsU(placed, cellid) == cellid \in DOMAIN placed.cells

\* Shape.DeleteEx(flags): com_error, or the shape is gone from the page
DeleteEx(placed) ==
    {[failed |-> TRUE, placed |-> placed], [failed |-> FALSE, placed |-> NoShape]}

-----------------------------------------------------------------------------
(* Inputs of the shape component *)

Numbers == 0..MaxNumber

\* the accessors x, y, w, h and the cell each reads and writes
GeometryAttrs == {"x", "y", "w", "h"}
GeometryCell(attr) ==
    CASE attr = "x" -> "PinX"
      [] attr = "y" -> "PinY"
      [] attr = "w" -> "Width"
      [] attr = "h" -> "Height"

\* the accessors linecolor, fillcolor and the cell each reads and writes
ColorAttrs == {"linecolor", "fillcolor"}
ColorCell(attr) == IF attr = "linecolor" THEN "LineColor" ELSE "Fillforegnd"

ColorFormulaArgs == {Str(TRUE, FALSE, <<"THEMEGUARD", "RGB", 255, 255, 0>>)}
RgbArgs == {<<0, 255, 0>>, <<255, 0, 0>>}
TextArgs == {"Circle Text"}
CellIdArgs == {"LineWeight", "NoSuchCell"}
CellValueArgs == {Str(FALSE, FALSE, <<"5 pt">>)}

-----------------------------------------------------------------------------
(* VisShape *)

\* self._shape.<attribute> when self._shape is None
NoneTypeError(op, args) ==
    Raised(op, args, "AttributeError", "'NoneType' object has no attribute",
           <<>>, <<>>)

\* VisShape(stencil, page, x, y)
VisShape(master, xval, yval) ==
    /\ handle = "unbuilt"
    /\ handle' = "live"
    /\ pageShape' = Drop(master, ToFloat(xval), ToFloat(yval))
    /\ last' = Returned("VisShape", <<master, xval, yval>>, None,
                        <<ExtCall("Page.Drop", <<master, xval, yval>>)>>)
    /\ UNCHANGED <<iterVars, stencilVars, documentVars, connectorVars>>

\* a call into a shape that is no longer on the page
StaleShapeError(op, args, call) ==
    Raised(op, args, "com_error", None, <<>>, <<call>>)

\* a call that reads: op(args) returns value, or fails on a None handle
Reads(op, args, value, call) ==
    /\ handle # "unbuilt"
    /\ last' = IF handle = None
               THEN NoneTypeError(op, args)
               ELSE IF ~ pageShape.exists
                    THEN StaleShapeError(op, args, call)
                    ELSE Returned(op, args, value, <<call>>)
    /\ UNCHANGED <<iterVars, stencilVars, documentVars, shapeVars, connectorVars>>

\* a call that writes: the application's shape becomes placed, or the call
\* fails on a None handle
Writes(op, args, placed, call) ==
    /\ handle # "unbuilt"
    /\ IF handle = None
       THEN /\ last' = NoneTypeError(op, args)
            /\ UNCHANGED pageShape
       ELSE IF ~ pageShape.exists
            THEN /\ last' = StaleShapeError(op, args, call)
                 /\ UNCHANGED pageShape
            ELSE /\ pageShape' = placed
                 /\ last' = Returned(op, args, None, <<call>>)
    /\ UNCHANGED <<iterVars, stencilVars, documentVars, handle, connectorVars>>

\* what the getters x, y, w, h return: self._shape.CellsU(name)
GeometryValue(placed, name) == CellObject(name)

\* VisShape.x, .y, .w, .h (getter)
geometry(attr) ==
    Reads("getter", <<attr>>, GeometryValue(pageShape, GeometryCell(attr)),
          ExtCall("Shape.CellsU", GeometryCell(attr)))

\* self._shape.CellsU(name).FormulaU = value
WriteFormulaU(placed, name, value) ==
    [placed EXCEPT !.cells[name] = SetFormulaU(value)]

\* VisShape.x, .y, .w, .h (setter)
set_geometry(attr, val) ==
    Writes("setter", <<attr, val>>,
           WriteFormulaU(pageShape, GeometryCell(attr), ToFloat(val)),
           ExtCall("Cell.FormulaU=", <<GeometryCell(attr), val>>))

\* VisShape.coords
coords ==
    Reads("coords", <<>>, BoundingBox(pageShape), ExtCall("Shape.BoundingBox", None))

\* VisShape.moveto(xnew, ynew)
moveto(xnew, ynew) ==
    Writes("moveto", <<xnew, ynew>>,
           SetCenter(pageShape, ToFloat(xnew), ToFloat(ynew)),
           ExtCall("Shape.SetCenter", <<xnew, ynew>>))

\* crop_page(page) on the page the shape is dropped on: page.CenterDrawing()
\* centres the drawing on the page and page.ResizeToFitContents() fits the
\* page to it, so a shape on the page gets whatever position the
\* application gives it; either call may fail, and the error is the
\* caller's
crop_page ==
    /\ LET center == ExtCall("Page.CenterDrawing", None)
           resize == ExtCall("Page.ResizeToFitContents", None)
           moved  == IF pageShape.exists
                     THEN {SetCenter(pageShape, ToFloat(px), ToFloat(py)) :
                             px \in Numbers, py \in Numbers}
                     ELSE {pageShape}
       IN  \/ /\ last' = Raised("crop_page", <<>>, "com_error", None, <<>>, <<center>>)
              /\ UNCHANGED pageShape
           \/ \E placed \in moved, failed \in BOOLEAN :
                 /\ pageShape' = placed
                 /\ last' = IF failed
                            THEN Raised("crop_page", <<>>, "com_error", None, <<>>,
                                        <<center, resize>>)
                            ELSE Returned("crop_page", <<>>, None, <<center, resize>>)
    /\ UNCHANGED <<iterVars, stencilVars, documentVars, handle, connectorVars>>

\* VisShape.text (getter)
text ==
    Reads("text", <<>>, pageShape.text, ExtCall("Shape.Text", None))

\* VisShape.text (setter)
set_text(textval) ==
    Writes("set_text", <<textval>>, [pageShape EXCEPT !.text = textval],
           ExtCall("Shape.Text=", textval))

\* VisShape.linecolor, .fillcolor (getter)
color(attr) ==
    Reads("getter", <<attr>>, GetFormulaU(pageShape.cells[ColorCell(attr)]),
          ExtCall("Cell.FormulaU", ColorCell(attr)))

\* VisShape.linecolor, .fillcolor (setter)
set_color(attr, fillformula) ==
    Writes("setter", <<attr, fillformula>>,
           WriteFormulaU(pageShape, ColorCell(attr), fillformula),
           ExtCall("Cell.FormulaU=", <<ColorCell(attr), fillformula>>))

\* a variant of RgbFormula that takes green and blue in the other order
RgbFormulaSwapped(rgb) == Str(FALSE, FALSE, <<"RGB", rgb[1], rgb[3], rgb[2]>>)

\* "RGB({0},{1},{2})".format(red, green, blue)
RgbFormula(rgb) == Str(FALSE, FALSE, <<"RGB", rgb[1], rgb[2], rgb[3]>>)

\* VisShape.setlinecolor, .setfillcolor
setcolor(attr, rgb) ==
    Writes("setcolor", <<attr, rgb>>,
           WriteFormulaU(pageShape, ColorCell(attr), RgbFormula(rgb)),
           ExtCall("Cell.FormulaU=", <<ColorCell(attr), RgbFormula(rgb)>>))

\* VisShape.oneD: the masters dropped here are two-dimensional
oneD ==
    Reads("oneD", <<>>, FALSE, ExtCall("Shape.OneD", None))

\* VisShape.cell(cellid)
cell(cellid) ==
    /\ handle # "unbuilt"
    /\ last' = IF handle = None
               THEN NoneTypeError("cell", <<cellid>>)
               ELSE IF ~ pageShape.exists
               THEN StaleShapeError("cell", <<cellid>>,
                                    ExtCall("Shape.CellExistsU", cellid))
               ELSE IF ~ CellExistsU(pageShape, cellid)
                    THEN Raised("cell", <<cellid>>, "AttributeError", None, <<>>,
                                <<ExtCall("Shape.CellExistsU", cellid)>>)
                    ELSE Returned("cell", <<cellid>>,
                                  GetFormulaU(pageShape.cells[cellid]),
                                  <<ExtCall("Shape.CellExistsU", cellid),
                                    ExtCall("Cell.FormulaU", cellid)>>)
    /\ UNCHANGED <<iterVars, stencilVars, documentVars, shapeVars, connectorVars>>

\* a variant of QuotedFormula that leaves the quotes out
UnquotedFormula(cellvalue) == Str(TRUE, FALSE, cellvalue.body)

\* "=\"{0}\"".format(cellvalue)
QuotedFormula(cellvalue) == Str(TRUE, TRUE, cellvalue.body)

\* VisShape.setcell(cellid, cellvalue, preformated)
setcell(cellid, cellvalue, preformated) ==
    /\ handle # "unbuilt"
    /\ LET args    == <<cellid, cellvalue, preformated>>
           written == IF preformated THEN cellvalue ELSE QuotedFormula(cellvalue)
       IN  IF handle = None
           THEN /\ last' = NoneTypeError("setcell", args)
                /\ UNCHANGED pageShape
           ELSE IF ~ pageShape.exists
           THEN /\ last' = StaleShapeError("setcell", args,
                                           ExtCall("Shape.CellExistsU", cellid))
                /\ UNCHANGED pageShape
           ELSE IF ~ CellExistsU(pageShape, cellid)
                THEN /\ last' = Raised("setcell", args, "AttributeError", None, <<>>,
                                       <<ExtCall("Shape.CellExistsU", cellid)>>)
                     /\ UNCHANGED pageShape
                ELSE /\ pageShape' = WriteFormulaU(pageShape, cellid, written)
                     /\ last' = Returned("setcell", args, None,
                                         <<ExtCall("Shape.CellExistsU", cellid),
                                           ExtCall("Cell.FormulaU=", <<cellid, written>>)>>)
    /\ UNCHANGED <<iterVars, stencilVars, documentVars, handle, connectorVars>>

\* a variant of HandleAfterDelete that keeps the handle
HandleKept == "live"

\* self._shape = None
HandleAfterDelete == None

\* VisShape.delete(flags)
delete ==
    /\ handle # "unbuilt"
    /\ IF handle = None
       THEN /\ last' = NoneTypeError("delete", <<>>)
            /\ UNCHANGED shapeVars
       ELSE IF ~ pageShape.exists
       THEN /\ last' = StaleShapeError("delete", <<>>, ExtCall("Shape.DeleteEx", None))
            /\ UNCHANGED shapeVars
       ELSE \E deleted \in DeleteEx(pageShape) :
              /\ pageShape' = deleted.placed
              /\ IF deleted.failed
                 THEN /\ handle' = handle
                      /\ last' = Raised("delete", <<>>, "com_error", None, <<>>,
                                        <<ExtCall("Shape.DeleteEx", None)>>)
                 ELSE /\ handle' = HandleAfterDelete
                      /\ last' = Returned("delete", <<>>, None,
                                          <<ExtCall("Shape.DeleteEx", None)>>)
    /\ UNCHANGED <<iterVars, stencilVars, documentVars, connectorVars>>

-----------------------------------------------------------------------------
(* The drawing application's connectors, as VisConnector uses them *)

\* connectors are glued while the page has fewer than MaxConnectors of them
MaxConnectors == 2

\* the ids the page gives to connector shapes
ConnectorIds == 1..MaxConnectors

\* str(id) for the ids of the page
IdDigits == <<"1", "2", "3", "4", "5">>

\* the connector argument: None (the dynamic connector) or a master
ConnectorArgs == {None, "Data_Connect"}

\* a text is a sequence of pieces, each separator being a piece of its own
ConnectorTexts ==
    { <<"a", ";", "b">>, <<"abcd">>, <<"a", ";", "b", ";", "c">> }

\* the text argument of VisConnector(): None, or a text
NoText == [given |-> FALSE, text |-> <<>>]
TextArg(t) == [given |-> TRUE, text |-> t]
OptionalTexts == {NoText} \cup {TextArg(t) : t \in ConnectorTexts}

RouteStyleArgs == {0, 2}

PortA == "Prop.Port_A_Port_Name"
PortB == "Prop.Port_B_Port_Name"

\* the cells of a new connector: the two end labels, "A" and "B", only on
\* the Data_Connect master
ConnectorCells(connector) ==
    IF connector = "Data_Connect"
    THEN [c \in {PortA, PortB, "ShapeRouteStyle"} |->
             CASE c = PortA -> TextFormula(TRUE, <<"A">>)
               [] c = PortB -> TextFormula(TRUE, <<"B">>)
               [] OTHER     -> NumFormula(0)]
    ELSE [c \in {"ShapeRouteStyle"} |-> NumFormula(0)]

\* Shape.NameU of a new shape: the master's name, followed by "." and the
\* shape's id when the page has a shape of that name already
ConnectorNameU(links, connector, id) ==
    LET base == IF connector = None THEN "Dynamic connector" ELSE connector
    IN  IF \E i \in DOMAIN links : links[i].name = <<base>>
        THEN <<base, ".", IdDigits[id]>>
        ELSE <<base>>

ConnectorShape(name, cells) == [name |-> name, text |-> <<>>, cells |-> cells]

\* dict-like update of the page's connector shapes
PutLink(links, id, placed) ==
    [i \in DOMAIN links \cup {id} |-> IF i = id THEN placed ELSE links[i]]

\* shapeA._shape.AutoConnect(shapeB._shape, placementDir, connector):
\* com_error, or one new connector shape on the page, under an id no shape
\* of the page has, glued to shape A
AutoConnect(links, connects, connector) ==
    {[failed |-> TRUE, links |-> links, connects |-> connects]}
        \cup { [failed |-> FALSE,
                links |-> PutLink(links, id,
                                  ConnectorShape(ConnectorNameU(links, connector, id),
                                                 ConnectorCells(connector))),
                connects |-> Append(connects, id)]
               : id \in ConnectorIds \ DOMAIN links }

\* Cell.ResultStr(vC.visNone): the string a quoted-string formula evaluates to
ResultStr(formula) == formula.body

-----------------------------------------------------------------------------
(* VisConnector *)

NoLink == [state |-> "unbuilt", id |-> 0, type |-> <<>>]

\* [i.FromSheet.ID for i in shapeA._shape.FromConnects]
FromSheetIds(connects) == {connects[i] : i \in DOMAIN connects}

\* a variant of NewConnIds that does not take the earlier ids away
NewConnIdsAll(conn_list, connects) == FromSheetIds(connects)

\* set([i.FromSheet.ID for i in shapeA._shape.FromConnects]) - set(conn_list)
NewConnIds(conn_list, connects) == FromSheetIds(connects) \ conn_list

\* NameU.split(".")[0]: the pieces before the first "."
SplitHead(name, sep) ==
    LET S == {i \in DOMAIN name : name[i] = sep}
    IN  IF S = {} THEN name
        ELSE SubSeq(name, 1, (CHOOSE i \in S : \A j \in S : i <= j) - 1)

\* textval.split(";"): the runs of pieces between the separators
RECURSIVE Split(_, _)
Split(textval, sep) ==
    LET S == {i \in DOMAIN textval : textval[i] = sep}
    IN  IF S = {}
        THEN <<textval>>
        ELSE LET first == CHOOSE i \in S : \A j \in S : i <= j
             IN  <<SubSeq(textval, 1, first - 1)>>
                     \o Split(SubSeq(textval, first + 1, Len(textval)), sep)

DualLabelType == <<"Data_Connect">>

\* a variant of JoinLabels that puts the end label first
JoinLabelsSwapped(descA, descB) == descB \o <<";">> \o descA

\* "{0};{1}".format(descA, descB)
JoinLabels(descA, descB) == descA \o <<";">> \o descB

\* the text setter of VisConnector on the connector lk: the page's
\* connectors afterwards, the exception raised if any, and the calls made
SetLinkText(links, lk, textval) ==
    LET parts == Split(textval, ";")
        descA == IF Len(parts) > 1 THEN parts[1] ELSE textval
        descB == IF Len(parts) > 1 THEN parts[2] ELSE <<>>
        fmlA  == QuotedFormula(Str(FALSE, FALSE, descA))
        fmlB  == QuotedFormula(Str(FALSE, FALSE, descB))
    IN  IF lk.type = DualLabelType
        THEN IF Len(parts) > 2
             THEN [exc |-> "ValueError", links |-> links, ext |-> <<>>]
             ELSE [exc |-> None,
                   links |-> [links EXCEPT ![lk.id].cells[PortA] = SetFormulaU(fmlA),
                                           ![lk.id].cells[PortB] = SetFormulaU(fmlB)],
                   ext |-> <<ExtCall("Cell.FormulaU=", <<PortA, fmlA>>),
                             ExtCall("Cell.FormulaU=", <<PortB, fmlB>>)>>]
        ELSE [exc |-> None,
              links |-> [links EXCEPT ![lk.id].text = textval],
              ext |-> <<ExtCall("Shape.Text=", textval)>>]

\* VisConnector(shapeA, shapeB, connector, placementDir, text)
VisConnector(connector, textarg) ==
    /\ Cardinality(DOMAIN pageLinks) < MaxConnectors
    /\ LET args      == <<connector, textarg>>
           conn_list == FromSheetIds(fromConnects)
           call      == ExtCall("Shape.AutoConnect", connector)
       IN  \E glued \in AutoConnect(pageLinks, fromConnects, connector) :
             IF glued.failed
             THEN /\ last' = Raised("VisConnector", args, "com_error", None, <<>>,
                                    <<call>>)
                  /\ UNCHANGED connectorVars
             ELSE IF NewConnIds(conn_list, glued.connects) = {}
             THEN /\ last' = Raised("VisConnector", args, "IndexError", None, <<>>,
                                    <<call>>)
                  /\ pageLinks' = glued.links
                  /\ fromConnects' = glued.connects
                  /\ UNCHANGED link
             ELSE \E conn_ID \in NewConnIds(conn_list, glued.connects) :
                    LET built == [state |-> "live", id |-> conn_ID,
                                  type |-> SplitHead(glued.links[conn_ID].name, ".")]
                        set   == SetLinkText(glued.links, built, textarg.text)
                    IN  /\ fromConnects' = glued.connects
                        /\ IF ~ textarg.given
                           THEN /\ pageLinks' = glued.links
                                /\ link' = built
                                /\ last' = Returned("VisConnector", args, None, <<call>>)
                           ELSE /\ pageLinks' = set.links
                                /\ IF set.exc = None
                                   THEN /\ link' = built
                                        /\ last' = Returned("VisConnector", args, None,
                                                            <<call>> \o set.ext)
                                   ELSE /\ UNCHANGED link
                                        /\ last' = Raised("VisConnector", args, set.exc,
                                                          None, <<>>, <<call>> \o set.ext)
    /\ UNCHANGED <<iterVars, stencilVars, documentVars, shapeVars>>

\* VisConnector.text (getter)
connector_text ==
    /\ link.state # "unbuilt"
    /\ last' = IF link.state = "deleted"
               THEN NoneTypeError("connector_text", <<>>)
               ELSE IF link.type = DualLabelType
               THEN Returned("connector_text", <<>>,
                             JoinLabels(ResultStr(pageLinks[link.id].cells[PortA]),
                                        ResultStr(pageLinks[link.id].cells[PortB])),
                             <<ExtCall("Cell.ResultStr", PortA),
                               ExtCall("Cell.ResultStr", PortB)>>)
               ELSE Returned("connector_text", <<>>, pageLinks[link.id].text,
                             <<ExtCall("Shape.Text", None)>>)
    /\ UNCHANGED <<iterVars, stencilVars, documentVars, shapeVars, connectorVars>>

\* VisConnector.text (setter): the text is split before self._shape is used
set_connector_text(textval) ==
    /\ link.state # "unbuilt"
    /\ IF link.state = "deleted"
       THEN /\ last' = IF /\ link.type = DualLabelType
                          /\ Len(Split(textval, ";")) > 2
                       THEN Raised("set_connector_text", <<textval>>, "ValueError",
                                   None, <<>>, <<>>)
                       ELSE NoneTypeError("set_connector_text", <<textval>>)
            /\ UNCHANGED pageLinks
       ELSE LET set == SetLinkText(pageLinks, link, textval)
            IN  /\ pageLinks' = set.links
                /\ last' = IF set.exc = None
                           THEN Returned("set_connector_text", <<textval>>, None, set.ext)
                           ELSE Raised("set_connector_text", <<textval>>, set.exc, None,
                                       <<>>, set.ext)
    /\ UNCHANGED <<iterVars, stencilVars, documentVars, shapeVars, link, fromConnects>>

\* VisConnector.route_style(style): self._shape.setcell is looked up on the
\* application's Shape object (or on None), which has no such attribute
route_style(style) ==
    /\ link.state # "unbuilt"
    /\ last' = IF link.state = "deleted"
               THEN NoneTypeError("route_style", <<style>>)
               ELSE Raised("route_style", <<style>>, "AttributeError", "setcell",
                           <<>>, <<>>)
    /\ UNCHANGED <<iterVars, stencilVars, documentVars, shapeVars, connectorVars>>

\* VisShape.setcell(cellid, cellvalue, preformated), inherited by the
\* connector
connector_setcell(cellid, cellvalue, preformated) ==
    /\ link.state # "unbuilt"
    /\ LET args    == <<cellid, cellvalue, preformated>>
           written == IF preformated THEN cellvalue ELSE QuotedFormula(cellvalue)
       IN  IF link.state = "deleted"
           THEN /\ last' = NoneTypeError("connector_setcell", args)
                /\ UNCHANGED pageLinks
           ELSE IF ~ CellExistsU(pageLinks[link.id], cellid)
           THEN /\ last' = Raised("connector_setcell", args, "AttributeError", None,
                                  <<>>, <<ExtCall("Shape.CellExistsU", cellid)>>)
                /\ UNCHANGED pageLinks
           ELSE /\ pageLinks' = [pageLinks EXCEPT
                                    ![link.id] = WriteFormulaU(@, cellid, written)]
                /\ last' = Returned("connector_setcell", args, None,
                                    <<ExtCall("Shape.CellExistsU", cellid),
                                      ExtCall("Cell.FormulaU=", <<cellid, written>>)>>)
    /\ UNCHANGED <<iterVars, stencilVars, documentVars, shapeVars, link, fromConnects>>

\* VisShape.delete(flags) on the connector
connector_delete ==
    /\ link.state # "unbuilt"
    /\ IF link.state = "deleted"
       THEN /\ last' = NoneTypeError("connector_delete", <<>>)
            /\ UNCHANGED connectorVars
       ELSE \E failed \in BOOLEAN :
              IF failed
              THEN /\ last' = Raised("connector_delete", <<>>, "com_error", None, <<>>,
                                     <<ExtCall("Shape.DeleteEx", None)>>)
                   /\ UNCHANGED connectorVars
              ELSE /\ link' = [link EXCEPT !.state = "deleted"]
                   /\ pageLinks' = [i \in DOMAIN pageLinks \ {link.id} |-> pageLinks[i]]
                   /\ fromConnects' = SelectSeq(fromConnects, LAMBDA i : i # link.id)
                   /\ last' = Returned("connector_delete", <<>>, None,
                                       <<ExtCall("Shape.DeleteEx", None)>>)
    /\ UNCHANGED <<iterVars, stencilVars, documentVars, shapeVars>>

-----------------------------------------------------------------------------

(* Specifications *)

\* VisStencils(): both maps empty; no document, shape or connector made and
\* no call made yet; the application's AlertResponse is one of responses
Start(responses) ==
    /\ stencils = <<>>
    /\ shapes = <<>>
    /\ loadOrder = <<>>
    /\ iterator = Generator("none", <<>>, 0)
    /\ pageIterator = Generator("none", <<>>, 0)
    /\ docState = "none"
    /\ docFilename = ""
    /\ document = NoDocument
    /\ properties = <<>>
    /\ alertResponse \in responses
    /\ handle = "unbuilt"
    /\ pageShape = NoShape
    /\ link = NoLink
    /\ pageLinks = <<>>
    /\ fromConnects = <<>>
    /\ last = NoCall

\* the application asks the user (AlertResponse 0), as it does when started
Init == Start({0})

\* the document component is used with every setting of AlertResponse
DocumentInit == Start(AlertResponses)

StencilNext ==
    \/ \E filename \in Filenames : add_stencil(filename)
    \/ \E shape \in ShapeArgs, index \in Indexes : get(shape, index)
    \/ \E shape \in ShapeArgs : getitem(shape)
    \/ \E shape \in ShapeArgs, index \in {0, MaxIndex} : get_info(shape, index)
    \/ \E path \in ExportPaths, shape \in ShapeArgs, index \in {0, MaxIndex} :
          export(path, shape, index)
    \/ iter
    \/ iter_next
    \/ \E shape \in ShapeArgs : contains(shape)

StencilSpec == Init /\ [][StencilNext]_vars

DocumentNext ==
    \/ \E file \in DocFilenames, rw \in BOOLEAN : VisDocument(file, rw)
    \/ document_len
    \/ \E name \in PageNameArgs : add(name)
    \/ document_iter
    \/ document_next
    \/ \E name \in PageNameArgs \ {None} : document_contains(name)
    \/ \E page \in PageArgs : document_getitem(page)
    \/ save
    \/ \E path \in SavePaths : saveAs(path)
    \/ \E item \in PropertyNameArgs : getattr(item)
    \/ \E name \in PropertyNameArgs, value \in PropertyValueArgs : setProperty(name, value)
    \/ \E nosave \in BOOLEAN : close(nosave)

DocumentSpec == DocumentInit /\ [][DocumentNext]_vars

ShapeNext ==
    \/ \E master \in MasterArgs, xval, yval \in Numbers : VisShape(master, xval, yval)
    \/ \E attr \in GeometryAttrs : geometry(attr)
    \/ \E attr \in GeometryAttrs, val \in Numbers : set_geometry(attr, val)
    \/ coords
    \/ \E xnew, ynew \in Numbers : moveto(xnew, ynew)
    \/ crop_page
    \/ text
    \/ \E textval \in TextArgs : set_text(textval)
    \/ \E attr \in ColorAttrs : color(attr)
    \/ \E attr \in ColorAttrs, fillformula \in ColorFormulaArgs : set_color(attr, fillformula)
    \/ \E attr \in ColorAttrs, rgb \in RgbArgs : setcolor(attr, rgb)
    \/ oneD
    \/ \E cellid \in CellIdArgs : cell(cellid)
    \/ \E cellid \in CellIdArgs, cellvalue \in CellValueArgs, preformated \in BOOLEAN :
          setcell(cellid, cellvalue, preformated)
    \/ delete

ShapeSpec == Init /\ [][ShapeNext]_vars

ConnectorNext ==
    \/ \E connector \in ConnectorArgs, textarg \in OptionalTexts :
          VisConnector(connector, textarg)
    \/ connector_text
    \/ \E textval \in ConnectorTexts : set_connector_text(textval)
    \/ \E style \in RouteStyleArgs : route_style(style)
    \/ \E cellid \in {PortA, "NoSuchCell"} :
          connector_setcell(cellid, Str(FALSE, FALSE, <<"x">>), FALSE)
    \/ connector_setcell("ShapeRouteStyle", Float(2), TRUE)
    \/ connector_delete

ConnectorSpec == Init /\ [][ConnectorNext]_vars

-----------------------------------------------------------------------------
(* Properties of the stencil registry *)

Reverse(s) == [i \in 1..Len(s) |-> s[Len(s) + 1 - i]]

\* the keys of the loaded libraries that define name, latest loaded first
DefinersLatestFirst(name) ==
    Reverse(SelectSeq(loadOrder, LAMBDA k : name \in stencils[k].masters))

\* C1: last-loaded-wins.  get(N, i) with 0 <= i < (number of loaded
\* libraries defining N) returns the master named N of the (i+1)-th most
\* recently loaded library among those that define N.
C1_LastLoadedWins ==
    last.op = "get" =>
        LET name     == last.args[1]
            index    == last.args[2]
            definers == DefinersLatestFirst(name)
        IN  (0 <= index /\ index < Len(definers)) =>
                /\ last.outcome = "return"
                /\ last.value = [library |-> stencils[definers[index + 1]],
                                 name |-> name]

\* three libraries are loaded, the latest one does not define the name, and
\* get(name, 1) returned the master of the earlier of the two that do
C1_Witness ==
    /\ last.op = "get"
    /\ last.outcome = "return"
    /\ last.args[2] = 1
    /\ Len(loadOrder) = 3
    /\ last.args[1] \notin stencils[loadOrder[3]].masters
    /\ Len(DefinersLatestFirst(last.args[1])) = 2

NoKeyTwice(reg) ==
    \A n \in DOMAIN reg : \A i, j \in DOMAIN reg[n] : reg[n][i] = reg[n][j] => i = j

\* C2: idempotent registration.  add_stencil with a file whose key is
\* already loaded does not open the file and leaves the library map and
\* every resolution list as they were; no resolution list ever holds a key
\* twice.
C2_IdempotentRegistration ==
    [][ /\ (last'.op = "add_stencil" /\ StencilKey(last'.args[1]) \in DOMAIN stencils)
           => (stencils' = stencils /\ shapes' = shapes /\ last'.ext = <<>>)
        /\ NoKeyTwice(shapes') ]_vars

\* add_stencil returned without opening anything for a file that is not the
\* file its key was loaded from
C2_Witness ==
    /\ last.op = "add_stencil"
    /\ last.outcome = "return"
    /\ last.ext = <<>>
    /\ stencils[StencilKey(last.args[1])].file # last.args[1]
    /\ stencils[StencilKey(last.args[1])].masters # {}

\* C3: get with a name no loaded library registered raises KeyError carrying
\* the name, after one error log entry, whatever the index, and leaves the
\* registry unchanged.
C3_MissingKey ==
    [][ (last'.op = "get" /\ last'.args[1] \notin DOMAIN shapes)
        => /\ last'.outcome = "KeyError"
           /\ last'.value = last'.args[1]
           /\ last'.log = <<LogError("Non existing shape: %s", last'.args[1])>>
           /\ UNCHANGED stencilVars ]_vars

\* get of an unregistered name with a negative index raised KeyError while
\* other names are registered
C3_Witness ==
    /\ last.op = "get"
    /\ last.outcome = "KeyError"
    /\ last.args[2] < 0
    /\ last.args[1] \in MasterNames
    /\ DOMAIN shapes # {}

\* C4: get with a registered name and an index outside 0 .. len-1 (negative
\* ones and len included) raises ValueError carrying the index, after one
\* error log entry; no master is returned.
C4_BadIndex ==
    [][ ( /\ last'.op = "get"
          /\ last'.args[1] \in DOMAIN shapes
          /\ ~ (0 <= last'.args[2] /\ last'.args[2] < Len(shapes[last'.args[1]])) )
        => /\ last'.outcome = "ValueError"
           /\ last'.value = last'.args[2]
           /\ last'.log = <<LogError("Bad shape index: %s", last'.args[2])>>
           /\ last'.ext = <<>>
           /\ UNCHANGED stencilVars ]_vars

\* get(name, -1) raised ValueError for a name two libraries define
C4_Witness ==
    /\ last.op = "get"
    /\ last.outcome = "ValueError"
    /\ last.args[2] = 0 - 1
    /\ last.args[1] \in DOMAIN shapes
    /\ Len(shapes[last.args[1]]) = 2

\* the master names of all loaded libraries
LoadedMasterNames == UNION {stencils[k].masters : k \in DOMAIN stencils}

\* C5: a generator of iter(stencils) that is run to its end has yielded
\* exactly the master names of the loaded libraries, each once; every name
\* a generator yields is a master name of a loaded library that it has not
\* yielded before; and a name is a member iff get(name, 0) returns a master.
C5_IterationAndMembership ==
    [][ /\ ( /\ last'.op = "next"
             /\ last'.outcome = "StopIteration"
             /\ iterator.phase \in {"created", "running"} )
           => /\ {iterator.order[i] : i \in DOMAIN iterator.order} = LoadedMasterNames
              /\ Len(iterator.order) = Cardinality(LoadedMasterNames)
              /\ iterator.pos = Len(iterator.order)
        /\ (last'.op = "next" /\ last'.outcome = "return")
           => /\ last'.value \in LoadedMasterNames
              /\ \A i \in 1..iterator.pos : iterator.order[i] # last'.value
        /\ last'.op = "contains"
           => (last'.value
                 <=> GetResult("get", <<last'.args[1], 0>>, last'.args[1], 0).outcome
                        = "return") ]_vars

\* a generator has yielded the second of the two names registered, one of
\* them defined by two libraries
C5_Witness ==
    /\ last.op = "next"
    /\ last.outcome = "return"
    /\ iterator.phase = "running"
    /\ iterator.pos = 2
    /\ Cardinality(DOMAIN shapes) = 2
    /\ \E n \in DOMAIN shapes : Len(shapes[n]) = 2

\* C6: when the open fails, add_stencil logs the failure and re-raises the
\* error, the registry is exactly as before (the key is not loaded), and
\* add_stencil of a key that is not loaded always tries to open the file.
C6_FailedOpenLeavesRegistry ==
    [][ /\ (last'.op = "add_stencil" /\ last'.outcome = "com_error")
           => /\ UNCHANGED stencilVars
              /\ StencilKey(last'.args[1]) \notin DOMAIN stencils'
              /\ Len(last'.log) = 2
              /\ last'.log[1] = LogError("Loading of stencil file failed for: %s",
                                         last'.args[1])
        /\ (last'.op = "add_stencil" /\ StencilKey(last'.args[1]) \notin DOMAIN stencils)
           => last'.ext = <<OpenExCall(last'.args[1])>> ]_vars

\* an open failed while other libraries were loaded
C6_Witness ==
    /\ last.op = "add_stencil"
    /\ last.outcome = "com_error"
    /\ Len(loadOrder) = 2
    /\ StencilKey(last.args[1]) \notin DOMAIN stencils

\* C20: no stencil operation removes a loaded library or changes it, none
\* removes a name or a key from a name's resolution list, and the keys a
\* list held stay in their order at its end: new keys only go in front.
C20_RegistryOnlyGrows ==
    [][ /\ \A k \in DOMAIN stencils :
              k \in DOMAIN stencils' /\ stencils'[k] = stencils[k]
        /\ \A n \in DOMAIN shapes :
              /\ n \in DOMAIN shapes'
              /\ Len(shapes'[n]) >= Len(shapes[n])
              /\ SubSeq(shapes'[n], Len(shapes'[n]) - Len(shapes[n]) + 1,
                        Len(shapes'[n])) = shapes[n] ]_vars

\* a third library was loaded and its key went in front of the two keys PC
\* resolved to before
C20_Witness ==
    /\ last.op = "add_stencil"
    /\ last.outcome = "return"
    /\ Len(loadOrder) = 3
    /\ "PC" \in DOMAIN shapes
    /\ shapes["PC"] = <<loadOrder[3], loadOrder[2], loadOrder[1]>>

\* C23: every registered name has a non-empty resolution list, every key in
\* a list is the key of a loaded library, and that library has a master of
\* the name; so get(name, i) with a registered name and 0 <= i < len(list)
\* returns a master.
C23_RegistryConsistent ==
    /\ \A n \in DOMAIN shapes :
          /\ Len(shapes[n]) > 0
          /\ \A i \in DOMAIN shapes[n] :
                /\ shapes[n][i] \in DOMAIN stencils
                /\ n \in stencils[shapes[n][i]].masters
    /\ ( /\ last.op = "get"
         /\ last.args[1] \in DOMAIN shapes
         /\ 0 <= last.args[2]
         /\ last.args[2] < Len(shapes[last.args[1]]) )
       => (last.outcome = "return" /\ last.value.name = last.args[1])

\* get("Server", 0) returned while three libraries are loaded, only one of
\* which has a master Server, and PC resolves to two libraries
C23_Witness ==
    /\ last.op = "get"
    /\ last.outcome = "return"
    /\ last.args = <<"Server", 0>>
    /\ Len(loadOrder) = 3
    /\ Len(shapes["Server"]) = 1
    /\ "PC" \in DOMAIN shapes
    /\ Len(shapes["PC"]) = 2

-----------------------------------------------------------------------------
(* Properties of the document *)

\* C7: a successful add makes the page count one larger and leaves the pages
\* already present at their positions with their names; a name given is
\* then found by the membership test, yielded by the iteration and accepted
\* by document[name]; a generator of iter(document) yields the names of the
\* pages in their order, one at every step, and ends after the last page.
C7_AddOnePage ==
    [][ /\ (last'.op = "add" /\ last'.outcome = "return")
           => /\ Len(document'.pages) = Len(document.pages) + 1
              /\ \A i \in DOMAIN document.pages :
                    document'.pages[i].name = document.pages[i].name
              /\ last'.args[1] # None
                 => /\ DocumentContains(document', last'.args[1])
                    /\ \E i \in DOMAIN document'.pages :
                          DocumentIter(document')[i] = last'.args[1]
                    /\ GetItemResult(document', StrArg(last'.args[1])).outcome = "return"
                    /\ GetItemResult(document', StrArg(last'.args[1])).value.name
                          = last'.args[1]
        /\ (last'.op = "document_next" /\ last'.outcome = "return")
           => /\ pageIterator'.pos = pageIterator.pos + 1
              /\ last'.value = DocumentIter(document)[pageIterator'.pos]
        /\ ( /\ last'.op = "document_next"
             /\ last'.outcome = "StopIteration"
             /\ pageIterator.phase # "done" )
           => pageIterator.pos = Len(DocumentIter(document)) ]_vars

\* add("TestPage") returned for the third page, after a page added without
\* a name
C7_Witness ==
    /\ last.op = "add"
    /\ last.outcome = "return"
    /\ last.args[1] = "TestPage"
    /\ Len(document.pages) = 3
    /\ document.pages[2].name = "Page-2"
    /\ document.pages[3].name = "TestPage"

\* C8 as stated: a new blank document and one made from a template
\* (rw=False) are bound to no file; save() on a document bound to no file
\* logs and re-raises com_error and changes nothing; a successful
\* saveAs(path) binds the document to path; a bound document stays bound
\* and every save() on it returns.
C8_SaveOrdering ==
    [][ /\ ( /\ last'.op = "VisDocument"
             /\ last'.outcome = "return"
             /\ (last'.args[1] = "" \/ last'.args[2] = FALSE) )
           => document'.path = ""
        /\ (last'.op = "save" /\ document.path = "")
           => /\ last'.outcome = "com_error"
              /\ last'.log = ComErrorLog("Failed to save document to file", None)
              /\ document' = document
        /\ (last'.op = "saveAs" /\ last'.outcome = "return")
           => (document'.path = last'.args[1] /\ document'.path # "")
        /\ (last'.op = "save" /\ document.path # "")
           => last'.outcome = "return"
        /\ (docState = "open" /\ document.path # "")
           => document'.path # "" ]_vars

\* C8, amended: a new blank document and one made from a template
\* (rw=False) are bound to no file; save() on a document bound to no file
\* logs and re-raises com_error; a successful saveAs(path) binds the
\* document to path and a failed one leaves it as it was; a bound document
\* stays bound; every save() calls Document.Save() once, leaves the
\* document and its binding as they were, and either returns, on a bound
\* document only, or raises com_error after the two log entries of its
\* handler.
C8_SaveOrderingAmended ==
    [][ /\ ( /\ last'.op = "VisDocument"
             /\ last'.outcome = "return"
             /\ (last'.args[1] = "" \/ last'.args[2] = FALSE) )
           => document'.path = ""
        /\ (last'.op = "save" /\ document.path = "")
           => last'.outcome = "com_error"
        /\ last'.op = "save"
           => /\ document' = document
              /\ last'.ext = <<ExtCall("Document.Save", None)>>
              /\ \/ last'.outcome = "return" /\ last'.log = <<>>
                 \/ /\ last'.outcome = "com_error"
                    /\ last'.log = ComErrorLog("Failed to save document to file", None)
        /\ (last'.op = "saveAs" /\ last'.outcome = "return")
           => (document'.path = last'.args[1] /\ document'.path # "")
        /\ (last'.op = "saveAs" /\ last'.outcome # "return")
           => /\ document' = document
              /\ last'.outcome = "com_error"
              /\ last'.log = ComErrorLog("Failed to save document to file: %s",
                                         last'.args[1])
        /\ (docState = "open" /\ document.path # "")
           => document'.path # "" ]_vars

\* save() returned on a document that was created blank and then saved
\* under a path
C8_Witness ==
    /\ last.op = "save"
    /\ last.outcome = "return"
    /\ docFilename = ""
    /\ document.path = "sample_document1.vsd"

\* C12: VisDocument(path, rw) with an empty path returns a new blank
\* document bound to no file, for rw = False and for rw = True; with a path
\* and rw = False it returns a document with the content of the file, bound
\* to no file; with a path and rw = True it returns the document of the
\* file, bound to it; when the call into the application fails, the failure
\* is logged and com_error is raised.
C12_ConstructionDispatch ==
    [][ last'.op = "VisDocument"
        => /\ last'.args[1] = ""
              => /\ last'.outcome = "return"
                 /\ docState' = "open"
                 /\ document' = Document("", <<Page("Page-1", FALSE)>>)
           /\ (last'.args[1] # "" /\ last'.args[2] = FALSE /\ last'.outcome = "return")
              => document' = Document("", FilePages(last'.args[1]))
           /\ (last'.args[1] # "" /\ last'.args[2] = TRUE /\ last'.outcome = "return")
              => document' = Document(last'.args[1], FilePages(last'.args[1]))
           /\ last'.outcome # "return"
              => /\ last'.outcome = "com_error"
                 /\ last'.log = ComErrorLog("Loading of document failed for: %s",
                                            last'.args[1])
                 /\ UNCHANGED documentVars ]_vars

\* C13: close(nosave=True) sets AlertResponse to the answer-No value before
\* it calls Close(), and when close has returned AlertResponse has the value
\* it had before the call; close(nosave=False) leaves AlertResponse at its
\* value, whether Close() succeeds or fails, and never writes another value.
C13_CloseAlertResponse ==
    [][ last'.op = "close"
        => /\ last'.args[1] = TRUE
              => /\ last'.ext[1].call = "AlertResponse="
                 /\ last'.ext[1].arg = AnswerNo
                 /\ last'.ext[2].call = "Document.Close"
           /\ (last'.args[1] = TRUE /\ last'.outcome = "return")
              => alertResponse' = alertResponse
           /\ last'.args[1] = FALSE
              => /\ alertResponse' = alertResponse
                 /\ \A i \in DOMAIN last'.ext :
                       last'.ext[i].call = "AlertResponse="
                          => last'.ext[i].arg = alertResponse ]_vars

\* close(nosave=True) returned on a document while AlertResponse was 1: it
\* was set to 7 for the Close() call and is 1 again
C13_Witness ==
    /\ last.op = "close"
    /\ last.outcome = "return"
    /\ last.args[1] = TRUE
    /\ docState = "closed"
    /\ alertResponse = 1
    /\ Len(last.ext) = 3
    /\ last.ext[3].arg = 1

\* C14: whenever a call into the application fails inside an operation, the
\* operation ends with that com_error and has written its log entries
\* before: the entry naming the operation and the entry with the error.
C14_FailuresAreLogged ==
    [][ (last'.outcome = "com_error" /\ last'.ext # <<>>)
        => /\ Len(last'.log) = 2
           /\ last'.log[1].level = "ERROR"
           /\ last'.log[2] = LogError("COM Exception: %s", "com_error") ]_vars

\* C15: reading a property the document object has returns its value;
\* reading it right after setProperty(name, v) returned yields v, and the
\* other properties keep their values; reading or setting a name the
\* document object does not have writes one error log entry and raises
\* AttributeError carrying the name, and leaves every property as it was.
C15_DocumentProperties ==
    [][ /\ (last'.op = "getattr" /\ last'.args[1] \in DOMAIN properties)
           => /\ last'.outcome = "return"
              /\ last'.value = properties[last'.args[1]]
        /\ ( /\ last.op = "setProperty"
             /\ last.outcome = "return"
             /\ last'.op = "getattr"
             /\ last'.args[1] = last.args[1] )
           => (last'.outcome = "return" /\ last'.value = last.args[2])
        /\ (last'.op = "setProperty" /\ last'.outcome = "return")
           => \A n \in DOMAIN properties \ {last'.args[1]} :
                 properties'[n] = properties[n]
        /\ ( /\ last'.op \in {"getattr", "setProperty"}
             /\ last'.args[1] \notin DOMAIN properties )
           => /\ last'.outcome = "AttributeError"
              /\ last'.value = last'.args[1]
              /\ last'.log = <<LogError("Property does not exist: %s", last'.args[1])>>
              /\ last'.ext = <<>>
              /\ UNCHANGED documentVars ]_vars

\* Creator was read as "Myself" right after setProperty("Creator", "Myself")
\* on a document made from the sample file, whose Company is still the
\* sample's
C15_Witness ==
    /\ last.op = "getattr"
    /\ last.outcome = "return"
    /\ last.args[1] = "Creator"
    /\ last.value = "Myself"
    /\ properties.Company = "Sample Company"

\* C21: when add returns, the value is the position of the new page, which
\* is the page count after the add; document[value] is that last page, and
\* when a name was given it is the page document[name] yields, bearing
\* that name, which no other page bears.
C21_AddReturnsIndex ==
    [][ (last'.op = "add" /\ last'.outcome = "return")
        => LET byIndex == GetItemResult(document', IntArg(last'.value))
           IN  /\ last'.value = Len(document'.pages)
               /\ last'.value = Len(document.pages) + 1
               /\ byIndex.outcome = "return"
               /\ byIndex.value.index = Len(document'.pages)
               /\ last'.args[1] # None
                  => LET byName == GetItemResult(document', StrArg(last'.args[1]))
                     IN  /\ byName.outcome = "return"
                         /\ byName.value = byIndex.value
                         /\ byIndex.value.name = last'.args[1]
                         /\ \A i \in DOMAIN document'.pages :
                               document'.pages[i].name = last'.args[1]
                                  => i = last'.value ]_vars

\* add("Page-2") returned 3 on a document whose second page had got the
\* name TestPage
C21_Witness ==
    /\ last.op = "add"
    /\ last.outcome = "return"
    /\ last.args[1] = "Page-2"
    /\ last.value = 3
    /\ document.pages[2].name = "TestPage"
    /\ document.pages[3].name = "Page-2"

\* C24: when Close() fails during close(nosave=True), the failure is logged,
\* com_error is raised and AlertResponse has the value it had before the
\* call.
C24_FailedCloseRestores ==
    [][ ( /\ last'.op = "close"
          /\ last'.args[1] = TRUE
          /\ last'.outcome # "return" )
        => /\ last'.outcome = "com_error"
           /\ Len(last'.log) = 2
           /\ last'.log[2] = LogError("COM Exception: %s", "com_error")
           /\ alertResponse' = alertResponse ]_vars

\* C25: when add(name) does not return, the document has the pages it had
\* before the call: as many, under the same names.
C25_AddAllOrNothing ==
    [][ (last'.op = "add" /\ last'.outcome # "return")
        => /\ Len(document'.pages) = Len(document.pages)
           /\ PageNames(document') = PageNames(document) ]_vars

-----------------------------------------------------------------------------
(* Properties of the placed shape *)

\* C9: for x, y, w and h, reading the accessor right after writing the
\* number v to it yields v, and the write leaves the formulas of the other
\* three cells as they were.
C9_RoundTrip ==
    [][ /\ ( /\ last.op = "setter"
             /\ last.outcome = "return"
             /\ last.args[1] \in GeometryAttrs
             /\ last'.op = "getter"
             /\ last'.args[1] = last.args[1] )
           => (last'.outcome = "return" /\ last'.value = ToFloat(last.args[2]))
        /\ ( /\ last'.op = "setter"
             /\ last'.outcome = "return"
             /\ last'.args[1] \in GeometryAttrs )
           => \A attr \in GeometryAttrs \ {last'.args[1]} :
                 pageShape'.cells[GeometryCell(attr)] = pageShape.cells[GeometryCell(attr)]
      ]_vars

\* C10: a successful delete() leaves the handle None and the shape off the
\* page; from then on the handle stays None, whatever is done, and every
\* call on it raises AttributeError, returns nothing and changes neither
\* the page nor the document; nor does cropping the page bring the shape
\* back.
C10_UseAfterDelete ==
    [][ /\ (last'.op = "delete" /\ last'.outcome = "return")
           => (handle' = None /\ ~ pageShape'.exists)
        /\ handle = None
           => /\ handle' = None
              /\ last'.op # "crop_page"
                 => (last'.outcome = "AttributeError" /\ last'.ext = <<>>)
              /\ UNCHANGED <<pageShape, documentVars, stencilVars>> ]_vars

\* a setter was called on the handle after delete() and raised
C10_Witness ==
    /\ handle = None
    /\ last.op = "setter"
    /\ last.outcome = "AttributeError"
    /\ ~ pageShape.exists

\* the cell of the other colour accessor
OtherColorCell(attr) ==
    IF attr = "linecolor" THEN "Fillforegnd" ELSE "LineColor"

\* C11: reading linecolor right after setlinecolor(r, g, b) returned yields
\* the string RGB(r,g,b), whatever formula the cell held, and setlinecolor
\* leaves the fill colour's formula as it was; the same holds for
\* setfillcolor and fillcolor with the line colour's formula kept.
C11_SetColorRoundTrip ==
    [][ /\ ( /\ last.op = "setcolor"
             /\ last.outcome = "return"
             /\ last'.op = "getter"
             /\ last'.args[1] = last.args[1] )
           => /\ last'.outcome = "return"
              /\ last'.value = Str(FALSE, FALSE,
                                   <<"RGB", last.args[2][1], last.args[2][2],
                                     last.args[2][3]>>)
        /\ (last'.op = "setcolor" /\ last'.outcome = "return")
           => pageShape'.cells[OtherColorCell(last'.args[1])]
                 = pageShape.cells[OtherColorCell(last'.args[1])] ]_vars

\* linecolor was read as RGB(0,255,0) right after setlinecolor(0, 255, 0),
\* while the fill colour holds the theme-guarded formula written before
C11_Witness ==
    /\ last.op = "getter"
    /\ last.outcome = "return"
    /\ last.args[1] = "linecolor"
    /\ last.value = Str(FALSE, FALSE, <<"RGB", 0, 255, 0>>)
    /\ pageShape.cells.Fillforegnd = TextFormula(FALSE, <<"THEMEGUARD", "RGB", 255, 255, 0>>)

\* C16: on a live shape, cell(id) and setcell(id, ...) raise AttributeError
\* when the shape has no cell of that name, and the shape is then as it
\* was; when it has, setcell returns and the cell holds the value as a
\* quoted string (preformated=False) or the given formula text as it is
\* (preformated=True), every other cell and the text being as before.
C16_CellAccess ==
    [][ (last'.op \in {"cell", "setcell"} /\ handle = "live" /\ pageShape.exists)
        => IF last'.args[1] \notin DOMAIN pageShape.cells
           THEN /\ last'.outcome = "AttributeError"
                /\ UNCHANGED pageShape
           ELSE /\ last'.outcome = "return"
                /\ last'.op = "cell" => UNCHANGED pageShape
                /\ last'.op = "setcell"
                   => /\ pageShape'.cells[last'.args[1]]
                            = IF last'.args[3]
                              THEN TextFormula(last'.args[2].quoted, last'.args[2].body)
                              ELSE TextFormula(TRUE, last'.args[2].body)
                      /\ \A c \in DOMAIN pageShape.cells \ {last'.args[1]} :
                            pageShape'.cells[c] = pageShape.cells[c]
                      /\ DOMAIN pageShape'.cells = DOMAIN pageShape.cells
                      /\ pageShape'.text = pageShape.text ]_vars

\* setcell("LineWeight", "5 pt", preformated=False) returned and the cell
\* holds "5 pt" in quotes, on a shape whose line colour had been set
C16_Witness ==
    /\ last.op = "setcell"
    /\ last.outcome = "return"
    /\ last.args[1] = "LineWeight"
    /\ last.args[3] = FALSE
    /\ pageShape.cells.LineWeight = TextFormula(TRUE, <<"5 pt">>)
    /\ pageShape.cells.LineColor = TextFormula(FALSE, <<"RGB", 0, 255, 0>>)

\* C22: when cell(id) or setcell(id, ...) on a live shape fails because the
\* shape has no cell of that name, it has written an error log entry
\* before and the AttributeError raised carries the name of the cell.
C22_MissingAttributeLogged ==
    [][ ( /\ last'.op \in {"cell", "setcell"}
          /\ handle = "live"
          /\ pageShape.exists
          /\ last'.outcome = "AttributeError" )
        => /\ Len(last'.log) >= 1
           /\ last'.log[1].level = "ERROR"
           /\ last'.value = last'.args[1] ]_vars

-----------------------------------------------------------------------------
(* Properties of the connector *)

\* C17: route_style(style) on a live connector returns, and afterwards the
\* connector's ShapeRouteStyle cell holds the style as setcell writes it,
\* every other cell, the text and every other connector being as before.
C17_RouteStyle ==
    [][ (last'.op = "route_style" /\ link.state = "live")
        => /\ last'.outcome = "return"
           /\ pageLinks'[link.id].cells["ShapeRouteStyle"]
                 = TextFormula(TRUE, <<last'.args[1]>>)
           /\ \A i \in DOMAIN pageLinks :
                 /\ pageLinks'[i].text = pageLinks[i].text
                 /\ \A c \in DOMAIN pageLinks[i].cells \ {"ShapeRouteStyle"} :
                       pageLinks'[i].cells[c] = pageLinks[i].cells[c] ]_vars

NumberOf(textval, sep) == Cardinality({i \in DOMAIN textval : textval[i] = sep})

\* C18: on a live connector of type Data_Connect, setting text to a text
\* with exactly one ";" returns, the start-label cell then holds the part
\* before the ";" and the end-label cell the part after it, both as quoted
\* strings, the shape's text is as before, and reading text right after
\* yields the text that was set; on a live connector of any other type the
\* setter makes the given text the shape's text and leaves every cell as it
\* was, and the getter returns the shape's text.
C18_ConnectorText ==
    [][ /\ ( /\ last'.op = "set_connector_text"
             /\ link.state = "live"
             /\ link.type = <<"Data_Connect">>
             /\ NumberOf(last'.args[1], ";") = 1 )
           => /\ last'.outcome = "return"
              /\ \E i \in DOMAIN last'.args[1] :
                    /\ last'.args[1][i] = ";"
                    /\ pageLinks'[link.id].cells[PortA]
                          = TextFormula(TRUE, SubSeq(last'.args[1], 1, i - 1))
                    /\ pageLinks'[link.id].cells[PortB]
                          = TextFormula(TRUE, SubSeq(last'.args[1], i + 1,
                                                     Len(last'.args[1])))
              /\ pageLinks'[link.id].text = pageLinks[link.id].text
        /\ ( /\ last.op = "set_connector_text"
             /\ last.outcome = "return"
             /\ link.type = <<"Data_Connect">>
             /\ NumberOf(last.args[1], ";") = 1
             /\ last'.op = "connector_text" )
           => (last'.outcome = "return" /\ last'.value = last.args[1])
        /\ ( /\ last'.op = "set_connector_text"
             /\ link.state = "live"
             /\ link.type # <<"Data_Connect">> )
           => /\ last'.outcome = "return"
              /\ pageLinks'[link.id].text = last'.args[1]
              /\ pageLinks'[link.id].cells = pageLinks[link.id].cells
        /\ ( /\ last'.op = "connector_text"
             /\ link.state = "live"
             /\ link.type # <<"Data_Connect">> )
           => /\ last'.outcome = "return"
              /\ last'.value = pageLinks[link.id].text
              /\ UNCHANGED pageLinks ]_vars

\* text was read as "a;b" from the second Data_Connect connector of the
\* page (NameU Data_Connect.<id>), whose own text is still empty
C18_Witness ==
    /\ last.op = "connector_text"
    /\ last.outcome = "return"
    /\ last.value = <<"a", ";", "b">>
    /\ link.state = "live"
    /\ Len(pageLinks[link.id].name) = 3
    /\ pageLinks[link.id].name[1] = "Data_Connect"
    /\ pageLinks[link.id].text = <<>>
    /\ pageLinks[link.id].cells[PortB] = TextFormula(TRUE, <<"b">>)

\* C19: when VisConnector() returns and the AutoConnect call has added one
\* connection to shape A, the connector wraps the shape whose id is among
\* A's connection ids after the call and not before it; that id belongs to
\* no connector that was on the page before the call.
C19_NewConnectorFound ==
    [][ ( /\ last'.op = "VisConnector"
          /\ last'.outcome = "return"
          /\ Cardinality(FromSheetIds(fromConnects') \ FromSheetIds(fromConnects)) = 1 )
        => /\ link'.state = "live"
           /\ link'.id \in FromSheetIds(fromConnects')
           /\ link'.id \notin FromSheetIds(fromConnects)
           /\ link'.id \notin DOMAIN pageLinks
           /\ link'.id \in DOMAIN pageLinks' ]_vars

\* VisConnector() returned wrapping the shape with id 1 while shape A has an
\* earlier connection from the shape with id 2
C19_Witness ==
    /\ last.op = "VisConnector"
    /\ last.outcome = "return"
    /\ link.state = "live"
    /\ link.id = 1
    /\ fromConnects = <<2, 1>>

=============================================================================
